---- MODULE Spec2Model ----
(***************************************************************************)
(* Model of the edge attribute conversion add-on: five operators that      *)
(* convert the sharp flag, the seam flag and the bevel weight of the       *)
(* selected edges of the mesh being edited, and the scene property the     *)
(* panel shows.                                                            *)
(*                                                                         *)
(* Bevel weights are modelled in tenths: 0 is 0.0 and 10 is 1.0.           *)
(* An edge is sharp when its smooth flag is FALSE.                         *)
(***************************************************************************)
EXTENDS Integers, Sequences, FiniteSets, TLC

\* Number of edges of the mesh.
NumEdges == 2

\* The value the bevel conversions write (1.0, in tenths).
FullWeight == 10

\* Bevel weights an edge may hold: the default 0.0 and 1.0.
Weights == {0, FullWeight}

EdgeIds == 1..NumEdges

\* Active object: no object, an object that is not a mesh, a mesh.
ObjectTypes == {"NONE", "EMPTY", "MESH"}

Modes == {"OBJECT", "EDIT_MESH"}

ConversionTypes == {"SHARP_TO_BEVEL", "SHARP_TO_SEAM", "SEAM_TO_SHARP", "SEAM_TO_BEVEL"}

GeneralOp == "mesh.convert_edge_attributes"

QuickOps == {"mesh.quick_convert_sharp_to_bevel", "mesh.quick_convert_sharp_to_seam",
             "mesh.quick_convert_seam_to_sharp", "mesh.quick_convert_seam_to_bevel"}

VARIABLES
    active_object,        \* type of context.active_object ("NONE": no object)
    mode,                 \* context.mode
    legacy_api,           \* TRUE when bm.edges.layers.bevel_weight exists
    layers,               \* names of the edge layers the mesh holds
    edges,                \* bm.edges: per edge select, smooth, seam, bw
    edge_clear_original,  \* bpy.types.Scene.edge_clear_original
    last,                 \* the operator call that produced this state
    pre                   \* the context that call started from

vars == <<active_object, mode, legacy_api, layers, edges, edge_clear_original, last, pre>>

EdgeStates == [select : BOOLEAN, smooth : BOOLEAN, seam : BOOLEAN, bw : Weights]

\* The context an operator's execute() receives.
Ctx == [active_object |-> active_object, mode |-> mode, legacy_api |-> legacy_api,
        layers |-> layers, edges |-> edges, edge_clear_original |-> edge_clear_original]

\* No operator call since the last user edit.
NoCall == [op |-> "", conversion_type |-> "", clear_original |-> FALSE, ret |-> "",
           report |-> <<>>, modified_count |-> -1, log |-> <<>>]

----------------------------------------------------------------------------
\* ensure_bevel_layer

LegacyLayer == "bevel_weight"

GenericLayer == "bevel_weight_edge"

\* The layer that carries the bevel weight in this host.
BevelLayerName(legacy) == IF legacy THEN LegacyLayer ELSE GenericLayer

\* st: [ctx, log, bw_layer, selected_edges, modified_count]
ensure_bevel_layer(st) ==
    IF st.ctx.legacy_api
    THEN \* bm.edges.layers.bevel_weight.verify(): creates the layer when absent
         IF LegacyLayer \in st.ctx.layers
         THEN [st EXCEPT !.log = Append(@, "verify"), !.bw_layer = LegacyLayer]
         ELSE [st EXCEPT !.ctx.layers = @ \cup {LegacyLayer},
                         !.log = @ \o <<"verify", "alloc">>,
                         !.bw_layer = LegacyLayer]
    ELSE \* AttributeError: float.get, then float.new when there is none
         IF GenericLayer \in st.ctx.layers
         THEN [st EXCEPT !.log = Append(@, "get"), !.bw_layer = GenericLayer]
         ELSE [st EXCEPT !.ctx.layers = @ \cup {GenericLayer},
                         !.log = @ \o <<"get", "alloc">>,
                         !.bw_layer = GenericLayer]

----------------------------------------------------------------------------
\* Steps shared by the shape of every execute()

\* Faulty variant: only the missing object is rejected.
InvalidTarget_NoneOnly(ctx) == ctx.active_object = "NONE"

\* obj is None or obj.type != 'MESH'
InvalidTarget(ctx) == ctx.active_object = "NONE" \/ ctx.active_object # "MESH"

Start(ctx) == [ctx |-> ctx, log |-> <<>>, bw_layer |-> "", selected_edges |-> <<>>,
               modified_count |-> 0]

\* if context.mode != 'EDIT_MESH': bpy.ops.object.mode_set(mode='EDIT')
EnterEditMode(st) ==
    IF st.ctx.mode # "EDIT_MESH"
    THEN [st EXCEPT !.ctx.mode = "EDIT_MESH", !.log = Append(@, "mode_set")]
    ELSE st

EdgeOrder == [i \in EdgeIds |-> i]

\* Faulty variant: every edge is captured, selected or not.
CaptureSelected_AllEdges(st) ==
    [st EXCEPT !.selected_edges = EdgeOrder, !.log = Append(@, "capture")]

\* selected_edges = [edge for edge in bm.edges if edge.select]
CaptureSelected(st) ==
    [st EXCEPT !.selected_edges = SelectSeq(EdgeOrder, LAMBDA e : st.ctx.edges[e].select),
               !.log = Append(@, "capture")]

\* edge[bw_layer] = 1.0
WriteBevel(st, e) ==
    [st EXCEPT !.ctx.edges[e].bw = FullWeight, !.log = Append(@, "write")]

\* self.report({'WARNING'}, ...); return {'CANCELLED'}
Cancelled(st, msg) ==
    [ctx |-> st.ctx, ret |-> "CANCELLED", report |-> <<"WARNING", msg>>,
     modified_count |-> -1, log |-> st.log]

\* bmesh.update_edit_mesh(obj.data); self.report({'INFO'}, ...); return {'FINISHED'}
Finished(st, msg) ==
    [ctx |-> st.ctx, ret |-> "FINISHED", report |-> <<"INFO", msg>>,
     modified_count |-> st.modified_count,
     log |-> Append(st.log, "update_edit_mesh")]

----------------------------------------------------------------------------
\* MESH_OT_convert_edge_attributes.execute

\* 'BEVEL' in self.conversion_type
ContainsBevel(conversion_type) == conversion_type \in {"SHARP_TO_BEVEL", "SEAM_TO_BEVEL"}

\* Faulty variant: the selected edges are captured before the bevel layer is
\* ensured.
AcquireAndCapture_CaptureFirst(st, conversion_type) ==
    LET s1 == CaptureSelected([st EXCEPT !.log = Append(@, "from_edit_mesh")])
    IN IF ContainsBevel(conversion_type) THEN ensure_bevel_layer(s1) ELSE s1

\* bm = from_edit_mesh; the bevel layer first, the selected edges after it
AcquireAndCapture(st, conversion_type) ==
    LET s1 == [st EXCEPT !.log = Append(@, "from_edit_mesh")]
        s2 == IF ContainsBevel(conversion_type) THEN ensure_bevel_layer(s1) ELSE s1
    IN CaptureSelected(s2)

\* Faulty variant: an edge whose weight is already 1.0 is not counted.
SharpToBevelBranch_CountsChangesOnly(st, e, clear_original) ==
    IF st.ctx.edges[e].smooth = FALSE
    THEN LET s1 == WriteBevel(st, e)
             s2 == IF st.ctx.edges[e].bw # FullWeight
                   THEN [s1 EXCEPT !.modified_count = @ + 1] ELSE s1
         IN IF clear_original THEN [s2 EXCEPT !.ctx.edges[e].smooth = TRUE] ELSE s2
    ELSE st

SharpToBevelBranch(st, e, clear_original) ==
    IF st.ctx.edges[e].smooth = FALSE
    THEN LET s1 == WriteBevel(st, e)
             s2 == [s1 EXCEPT !.modified_count = @ + 1]
         IN IF clear_original THEN [s2 EXCEPT !.ctx.edges[e].smooth = TRUE] ELSE s2
    ELSE st

SharpToSeamBranch(st, e, clear_original) ==
    IF st.ctx.edges[e].smooth = FALSE
    THEN LET s1 == [st EXCEPT !.ctx.edges[e].seam = TRUE]
             s2 == [s1 EXCEPT !.modified_count = @ + 1]
         IN IF clear_original THEN [s2 EXCEPT !.ctx.edges[e].smooth = TRUE] ELSE s2
    ELSE st

\* Faulty variant: the seam is never cleared.
SeamToSharpBranch_KeepsSeam(st, e, clear_original) ==
    IF st.ctx.edges[e].seam
    THEN LET s1 == [st EXCEPT !.ctx.edges[e].smooth = FALSE]
         IN [s1 EXCEPT !.modified_count = @ + 1]
    ELSE st

\* Faulty variant: the source predicate is not tested.
SeamToSharpBranch_NoGuard(st, e, clear_original) ==
    LET s1 == [st EXCEPT !.ctx.edges[e].smooth = FALSE]
        s2 == [s1 EXCEPT !.modified_count = @ + 1]
    IN IF clear_original THEN [s2 EXCEPT !.ctx.edges[e].seam = FALSE] ELSE s2

SeamToSharpBranch(st, e, clear_original) ==
    IF st.ctx.edges[e].seam
    THEN LET s1 == [st EXCEPT !.ctx.edges[e].smooth = FALSE]
             s2 == [s1 EXCEPT !.modified_count = @ + 1]
         IN IF clear_original THEN [s2 EXCEPT !.ctx.edges[e].seam = FALSE] ELSE s2
    ELSE st

\* Faulty variant: the seam is cleared whatever clear_original says.
SeamToBevelBranch_AlwaysClears(st, e, clear_original) ==
    IF st.ctx.edges[e].seam
    THEN LET s1 == WriteBevel(st, e)
             s2 == [s1 EXCEPT !.modified_count = @ + 1]
         IN [s2 EXCEPT !.ctx.edges[e].seam = FALSE]
    ELSE st

SeamToBevelBranch(st, e, clear_original) ==
    IF st.ctx.edges[e].seam
    THEN LET s1 == WriteBevel(st, e)
             s2 == [s1 EXCEPT !.modified_count = @ + 1]
         IN IF clear_original THEN [s2 EXCEPT !.ctx.edges[e].seam = FALSE] ELSE s2
    ELSE st

\* The if / elif chain of the loop body.
ConvertBody(st, e, conversion_type, clear_original) ==
    IF conversion_type = "SHARP_TO_BEVEL" THEN SharpToBevelBranch(st, e, clear_original)
    ELSE IF conversion_type = "SHARP_TO_SEAM" THEN SharpToSeamBranch(st, e, clear_original)
    ELSE IF conversion_type = "SEAM_TO_SHARP" THEN SeamToSharpBranch(st, e, clear_original)
    ELSE IF conversion_type = "SEAM_TO_BEVEL" THEN SeamToBevelBranch(st, e, clear_original)
    ELSE st

\* for edge in selected_edges: ...
ConvertLoop(st, conversion_type, clear_original) ==
    LET f[i \in 0..Len(st.selected_edges)] ==
            IF i = 0 THEN st ELSE ConvertBody(f[i - 1], st.selected_edges[i], conversion_type, clear_original)
    IN f[Len(st.selected_edges)]

convert_edge_attributes_execute(ctx, conversion_type, clear_original) ==
    IF InvalidTarget(ctx)
    THEN Cancelled(Start(ctx), "select_mesh")
    ELSE LET s1 == AcquireAndCapture(EnterEditMode(Start(ctx)), conversion_type)
         IN IF s1.selected_edges = <<>>
            THEN Cancelled(s1, "no_edges")
            ELSE Finished(ConvertLoop(s1, conversion_type, clear_original), "converted_ok")

----------------------------------------------------------------------------
\* MESH_OT_quick_convert_sharp_to_bevel.execute

QuickSharpToBevelBody(st, e, clear_original) ==
    IF st.ctx.edges[e].smooth = FALSE
    THEN LET s1 == WriteBevel(st, e)
             s2 == [s1 EXCEPT !.modified_count = @ + 1]
         IN IF clear_original THEN [s2 EXCEPT !.ctx.edges[e].smooth = TRUE] ELSE s2
    ELSE st

\* for edge in selected_edges: ...
QuickSharpToBevelLoop(st, clear_original) ==
    LET f[i \in 0..Len(st.selected_edges)] ==
            IF i = 0 THEN st ELSE QuickSharpToBevelBody(f[i - 1], st.selected_edges[i], clear_original)
    IN f[Len(st.selected_edges)]

\* Faulty variant: the scene property decides whether the source is cleared.
quick_convert_sharp_to_bevel_execute_ReadsScene(ctx, clear_original) ==
    IF InvalidTarget(ctx)
    THEN Cancelled(Start(ctx), "select_mesh")
    ELSE LET s0 == EnterEditMode(Start(ctx))
             s1 == CaptureSelected(ensure_bevel_layer(
                       [s0 EXCEPT !.log = Append(@, "from_edit_mesh")]))
         IN IF s1.selected_edges = <<>>
            THEN Cancelled(s1, "no_edges")
            ELSE Finished(QuickSharpToBevelLoop(s1, ctx.edge_clear_original), "converted")

quick_convert_sharp_to_bevel_execute(ctx, clear_original) ==
    IF InvalidTarget(ctx)
    THEN Cancelled(Start(ctx), "select_mesh")
    ELSE LET s0 == EnterEditMode(Start(ctx))
             s1 == CaptureSelected(ensure_bevel_layer(
                       [s0 EXCEPT !.log = Append(@, "from_edit_mesh")]))
         IN IF s1.selected_edges = <<>>
            THEN Cancelled(s1, "no_edges")
            ELSE Finished(QuickSharpToBevelLoop(s1, clear_original), "converted")

\* MESH_OT_quick_convert_sharp_to_seam.execute

QuickSharpToSeamBody(st, e, clear_original) ==
    IF st.ctx.edges[e].smooth = FALSE
    THEN LET s1 == [st EXCEPT !.ctx.edges[e].seam = TRUE]
             s2 == [s1 EXCEPT !.modified_count = @ + 1]
         IN IF clear_original THEN [s2 EXCEPT !.ctx.edges[e].smooth = TRUE] ELSE s2
    ELSE st

\* for edge in selected_edges: ...
QuickSharpToSeamLoop(st, clear_original) ==
    LET f[i \in 0..Len(st.selected_edges)] ==
            IF i = 0 THEN st ELSE QuickSharpToSeamBody(f[i - 1], st.selected_edges[i], clear_original)
    IN f[Len(st.selected_edges)]

quick_convert_sharp_to_seam_execute(ctx, clear_original) ==
    IF InvalidTarget(ctx)
    THEN Cancelled(Start(ctx), "select_mesh")
    ELSE LET s0 == EnterEditMode(Start(ctx))
             s1 == CaptureSelected([s0 EXCEPT !.log = Append(@, "from_edit_mesh")])
         IN IF s1.selected_edges = <<>>
            THEN Cancelled(s1, "no_edges")
            ELSE Finished(QuickSharpToSeamLoop(s1, clear_original), "converted")

\* MESH_OT_quick_convert_seam_to_sharp.execute

\* Faulty variant: the converted edge is not counted.
QuickSeamToSharpBody_NoCount(st, e, clear_original) ==
    IF st.ctx.edges[e].seam
    THEN LET s1 == [st EXCEPT !.ctx.edges[e].smooth = FALSE]
         IN IF clear_original THEN [s1 EXCEPT !.ctx.edges[e].seam = FALSE] ELSE s1
    ELSE st

QuickSeamToSharpBody(st, e, clear_original) ==
    IF st.ctx.edges[e].seam
    THEN LET s1 == [st EXCEPT !.ctx.edges[e].smooth = FALSE]
             s2 == [s1 EXCEPT !.modified_count = @ + 1]
         IN IF clear_original THEN [s2 EXCEPT !.ctx.edges[e].seam = FALSE] ELSE s2
    ELSE st

\* for edge in selected_edges: ...
QuickSeamToSharpLoop(st, clear_original) ==
    LET f[i \in 0..Len(st.selected_edges)] ==
            IF i = 0 THEN st ELSE QuickSeamToSharpBody(f[i - 1], st.selected_edges[i], clear_original)
    IN f[Len(st.selected_edges)]

quick_convert_seam_to_sharp_execute(ctx, clear_original) ==
    IF InvalidTarget(ctx)
    THEN Cancelled(Start(ctx), "select_mesh")
    ELSE LET s0 == EnterEditMode(Start(ctx))
             s1 == CaptureSelected([s0 EXCEPT !.log = Append(@, "from_edit_mesh")])
         IN IF s1.selected_edges = <<>>
            THEN Cancelled(s1, "no_edges")
            ELSE Finished(QuickSeamToSharpLoop(s1, clear_original), "converted")

\* MESH_OT_quick_convert_seam_to_bevel.execute

QuickSeamToBevelBody(st, e, clear_original) ==
    IF st.ctx.edges[e].seam
    THEN LET s1 == WriteBevel(st, e)
             s2 == [s1 EXCEPT !.modified_count = @ + 1]
         IN IF clear_original THEN [s2 EXCEPT !.ctx.edges[e].seam = FALSE] ELSE s2
    ELSE st

\* for edge in selected_edges: ...
QuickSeamToBevelLoop(st, clear_original) ==
    LET f[i \in 0..Len(st.selected_edges)] ==
            IF i = 0 THEN st ELSE QuickSeamToBevelBody(f[i - 1], st.selected_edges[i], clear_original)
    IN f[Len(st.selected_edges)]

quick_convert_seam_to_bevel_execute(ctx, clear_original) ==
    IF InvalidTarget(ctx)
    THEN Cancelled(Start(ctx), "select_mesh")
    ELSE LET s0 == EnterEditMode(Start(ctx))
             s1 == CaptureSelected(ensure_bevel_layer(
                       [s0 EXCEPT !.log = Append(@, "from_edit_mesh")]))
         IN IF s1.selected_edges = <<>>
            THEN Cancelled(s1, "no_edges")
            ELSE Finished(QuickSeamToBevelLoop(s1, clear_original), "converted")

\* The registered operators by bl_idname; conversion_type is read by the
\* general operator only.
Execute(op, ctx, conversion_type, clear_original) ==
    CASE op = "mesh.convert_edge_attributes" ->
             convert_edge_attributes_execute(ctx, conversion_type, clear_original)
      [] op = "mesh.quick_convert_sharp_to_bevel" ->
             quick_convert_sharp_to_bevel_execute(ctx, clear_original)
      [] op = "mesh.quick_convert_sharp_to_seam" ->
             quick_convert_sharp_to_seam_execute(ctx, clear_original)
      [] op = "mesh.quick_convert_seam_to_sharp" ->
             quick_convert_seam_to_sharp_execute(ctx, clear_original)
      [] op = "mesh.quick_convert_seam_to_bevel" ->
             quick_convert_seam_to_bevel_execute(ctx, clear_original)

----------------------------------------------------------------------------
\* The state machine

\* An edge as the host creates it.
DefaultEdge == [select |-> FALSE, smooth |-> TRUE, seam |-> FALSE, bw |-> 0]

\* After register(): the scene property holds its default, the host scene is
\* any scene. The mesh is reached through the active object only: without an
\* active mesh there is no mesh data and no mesh edit mode. Without a bevel
\* layer every edge reads weight 0.
Init ==
    /\ active_object \in ObjectTypes
    /\ mode \in Modes
    /\ legacy_api \in BOOLEAN
    /\ layers \in {{}, {BevelLayerName(legacy_api)}}
    /\ edges \in [EdgeIds -> EdgeStates]
    /\ layers = {} => \A e \in EdgeIds : edges[e].bw = 0
    /\ active_object # "MESH" =>
           mode = "OBJECT" /\ layers = {} /\ edges = [e \in EdgeIds |-> DefaultEdge]
    /\ edge_clear_original = TRUE
    /\ last = NoCall
    /\ pre = Ctx

\* The state after an operator call that returned r.
Apply(r, op, conversion_type, clear_original) ==
    /\ active_object' = r.ctx.active_object
    /\ mode' = r.ctx.mode
    /\ legacy_api' = r.ctx.legacy_api
    /\ layers' = r.ctx.layers
    /\ edges' = r.ctx.edges
    /\ edge_clear_original' = r.ctx.edge_clear_original
    /\ last' = [op |-> op, conversion_type |-> conversion_type,
                clear_original |-> clear_original, ret |-> r.ret, report |-> r.report,
                modified_count |-> r.modified_count, log |-> r.log]
    /\ pre' = Ctx

ConvertEdgeAttributes ==
    \E t \in ConversionTypes, c \in BOOLEAN :
        Apply(convert_edge_attributes_execute(Ctx, t, c), "mesh.convert_edge_attributes", t, c)

QuickSharpToBevel ==
    \E c \in BOOLEAN :
        Apply(quick_convert_sharp_to_bevel_execute(Ctx, c),
              "mesh.quick_convert_sharp_to_bevel", "", c)

QuickSharpToSeam ==
    \E c \in BOOLEAN :
        Apply(quick_convert_sharp_to_seam_execute(Ctx, c),
              "mesh.quick_convert_sharp_to_seam", "", c)

QuickSeamToSharp ==
    \E c \in BOOLEAN :
        Apply(quick_convert_seam_to_sharp_execute(Ctx, c),
              "mesh.quick_convert_seam_to_sharp", "", c)

QuickSeamToBevel ==
    \E c \in BOOLEAN :
        Apply(quick_convert_seam_to_bevel_execute(Ctx, c),
              "mesh.quick_convert_seam_to_bevel", "", c)

\* box.prop(scene, "edge_clear_original"): the user flips the checkbox. The
\* panel is drawn for a mesh object in mesh edit mode only.
PanelSetClearOriginal ==
    /\ active_object = "MESH"
    /\ mode = "EDIT_MESH"
    /\ edge_clear_original' = ~edge_clear_original
    /\ last' = NoCall
    /\ pre' = [Ctx EXCEPT !.edge_clear_original = ~edge_clear_original]
    /\ UNCHANGED <<active_object, mode, legacy_api, layers, edges>>

Next ==
    \/ ConvertEdgeAttributes
    \/ QuickSharpToBevel
    \/ QuickSharpToSeam
    \/ QuickSeamToSharp
    \/ QuickSeamToBevel
    \/ PanelSetClearOriginal

Spec == Init /\ [][Next]_vars

----------------------------------------------------------------------------
\* Vocabulary of the properties: the rule table of the conversions

Called == last.op # ""

QuickRule(op) ==
    CASE op = "mesh.quick_convert_sharp_to_bevel" -> "SHARP_TO_BEVEL"
      [] op = "mesh.quick_convert_sharp_to_seam" -> "SHARP_TO_SEAM"
      [] op = "mesh.quick_convert_seam_to_sharp" -> "SEAM_TO_SHARP"
      [] op = "mesh.quick_convert_seam_to_bevel" -> "SEAM_TO_BEVEL"

QuickOpOf(rule) == CHOOSE op \in QuickOps : QuickRule(op) = rule

\* The rule the last call applied.
LastRule == IF last.op = GeneralOp THEN last.conversion_type ELSE QuickRule(last.op)

IsSharp(edge) == ~edge.smooth

SharpSourced(rule) == rule \in {"SHARP_TO_BEVEL", "SHARP_TO_SEAM"}

SourceHolds(rule, edge) == IF SharpSourced(rule) THEN IsSharp(edge) ELSE edge.seam

DestinationWritten(rule, edge) ==
    CASE rule \in {"SHARP_TO_BEVEL", "SEAM_TO_BEVEL"} -> edge.bw = FullWeight
      [] rule = "SHARP_TO_SEAM" -> edge.seam
      [] rule = "SEAM_TO_SHARP" -> IsSharp(edge)

\* Edges of the call's starting mesh that are selected and match the rule.
Matching(rule) == {e \in EdgeIds : pre.edges[e].select /\ SourceHolds(rule, pre.edges[e])}

SelectedBefore == {e \in EdgeIds : pre.edges[e].select}

FinishedCall == Called /\ last.ret = "FINISHED"

----------------------------------------------------------------------------
\* C1: when the general conversion runs on a mesh with a non-empty selection,
\* it finishes, and every selected edge that satisfied the rule's source
\* predicate holds the written destination value afterwards; its source
\* attribute is cleared when clear_original is set and keeps its value when
\* it is not.
C1_GeneralConversionWrites ==
    (last.op = GeneralOp /\ pre.active_object = "MESH" /\ SelectedBefore # {}) =>
        /\ last.ret = "FINISHED"
        /\ \A e \in Matching(last.conversion_type) :
              /\ DestinationWritten(last.conversion_type, edges[e])
              /\ SourceHolds(last.conversion_type, edges[e]) = ~last.clear_original

\* A general seam-to-bevel call without clearing wrote 1.0 on a seam edge
\* whose weight was 0.0 and left the seam in place.
C1_Witness ==
    /\ last.op = GeneralOp
    /\ last.conversion_type = "SEAM_TO_BEVEL"
    /\ ~last.clear_original
    /\ last.ret = "FINISHED"
    /\ \E e \in Matching("SEAM_TO_BEVEL") :
          pre.edges[e].bw = 0 /\ edges[e].bw = FullWeight /\ edges[e].seam

\* C2: the count a finished conversion reports is the number of selected
\* edges that satisfied the rule's source predicate when it was called, and
\* every call on a mesh with a non-empty selection finishes.
C2_CountIsMatchingEdges ==
    (Called /\ pre.active_object = "MESH" /\ SelectedBefore # {}) =>
        /\ last.ret = "FINISHED"
        /\ last.modified_count = Cardinality(Matching(LastRule))

\* A sharp-to-bevel call counted a sharp edge whose weight was 1.0 already
\* and passed over a selected edge that was not sharp.
C2_Witness ==
    /\ FinishedCall
    /\ LastRule = "SHARP_TO_BEVEL"
    /\ last.modified_count = 1
    /\ \E e \in Matching("SHARP_TO_BEVEL") : pre.edges[e].bw = FullWeight
    /\ \E f \in SelectedBefore : ~IsSharp(pre.edges[f])

\* C3: a call on a mesh with no selected edge reports "no edges selected",
\* is cancelled, and changes neither an edge nor the mesh's layers.
C3_EmptySelectionMutatesNothing ==
    (Called /\ pre.active_object = "MESH" /\ SelectedBefore = {}) =>
        /\ last.report = <<"WARNING", "no_edges">>
        /\ last.ret = "CANCELLED"
        /\ edges = pre.edges
        /\ layers = pre.layers

\* C4: a call without an active mesh reports "select a mesh object", is
\* cancelled, and does nothing: no mode switch, no layer, no write, no update.
C4_InvalidTargetMutatesNothing ==
    (Called /\ pre.active_object # "MESH") =>
        /\ last.report = <<"WARNING", "select_mesh">>
        /\ last.ret = "CANCELLED"
        /\ last.log = <<>>
        /\ Ctx = pre

\* A quick conversion was called while the active object was not a mesh.
C4_Witness ==
    /\ last.op \in QuickOps
    /\ pre.active_object = "EMPTY"
    /\ last.ret = "CANCELLED"

\* C5: an edge that was unselected, or selected without satisfying the
\* rule's source predicate, is the same after the call as before it.
C5_OtherEdgesUntouched ==
    Called =>
        \A e \in EdgeIds \ Matching(LastRule) : edges[e] = pre.edges[e]

\* A conversion changed a matching edge while an unselected edge with the
\* source attribute and a selected edge without it stayed as they were.
C5_Witness ==
    /\ FinishedCall
    /\ \E e \in Matching(LastRule) : edges[e] # pre.edges[e]
    /\ \E f \in EdgeIds \ Matching(LastRule) :
          /\ SourceHolds(LastRule, pre.edges[f]) \/ pre.edges[f].select
          /\ edges[f] = pre.edges[f]

\* C6: round trip. When a finished sharp-to-seam call that clears is
\* followed by a finished seam-to-sharp call that clears, every edge that was
\* selected and sharp before the first call is sharp and not a seam after the
\* second, with the bevel weight it had before the first.
C6_RoundTrip ==
    [][(/\ FinishedCall /\ LastRule = "SHARP_TO_SEAM" /\ last.clear_original
        /\ FinishedCall' /\ LastRule' = "SEAM_TO_SHARP" /\ last'.clear_original)
       => \A e \in EdgeIds :
             (pre.edges[e].select /\ IsSharp(pre.edges[e])) =>
                 /\ IsSharp(edges'[e])
                 /\ ~edges'[e].seam
                 /\ edges'[e].bw = pre.edges[e].bw]_vars

\* The state after the second call of a round trip: a clearing seam-to-sharp
\* call has turned a selected seam-only edge, as the first call leaves it,
\* back into a sharp edge without seam, its weight 1.0 untouched.
C6_Witness ==
    /\ FinishedCall
    /\ LastRule = "SEAM_TO_SHARP"
    /\ last.clear_original
    /\ \E e \in SelectedBefore :
          /\ pre.edges[e].seam /\ ~IsSharp(pre.edges[e]) /\ pre.edges[e].bw = FullWeight
          /\ IsSharp(edges[e]) /\ ~edges[e].seam /\ edges[e].bw = FullWeight

\* C7: composition. When a finished sharp-to-bevel call that clears is
\* followed by a finished seam-to-sharp call, every edge that was selected,
\* sharp and not a seam before the first call ends not sharp, with weight
\* 1.0 and no seam; the second call leaves it as it found it and counts only
\* the selected seam edges, which it is not one of.
C7_Composition ==
    [][(/\ FinishedCall /\ LastRule = "SHARP_TO_BEVEL" /\ last.clear_original
        /\ FinishedCall' /\ LastRule' = "SEAM_TO_SHARP")
       => /\ \A e \in EdgeIds :
                (pre.edges[e].select /\ IsSharp(pre.edges[e]) /\ ~pre.edges[e].seam) =>
                    /\ ~IsSharp(edges'[e])
                    /\ edges'[e].bw = FullWeight
                    /\ ~edges'[e].seam
                    /\ edges'[e] = edges[e]
          /\ last'.modified_count =
                 Cardinality({f \in EdgeIds : edges[f].select /\ edges[f].seam})]_vars

\* The state after the second call of a composition: a seam-to-sharp call
\* counted a selected seam edge and passed over a selected edge that is not
\* sharp, has weight 1.0 and no seam, as the first call leaves it.
C7_Witness ==
    /\ FinishedCall
    /\ LastRule = "SEAM_TO_SHARP"
    /\ last.modified_count = 1
    /\ \E e \in SelectedBefore :
          /\ ~IsSharp(pre.edges[e]) /\ ~pre.edges[e].seam /\ pre.edges[e].bw = FullWeight
          /\ edges[e] = pre.edges[e]

\* Positions of the host calls in the last call's log.
LogPositions(events) == {i \in 1..Len(last.log) : last.log[i] \in events}

\* C8: in every call whose rule touches the bevel weight and that captures
\* the selected edges, the bevel layer is looked up, and allocated when it
\* was missing, before the capture; the layer exists from then on, and
\* nothing is allocated and no layer is looked up after the capture, so every
\* write follows both. This holds on the legacy and on the generic layer path.
C8_LayerBeforeCapture ==
    (Called /\ pre.active_object = "MESH" /\ ContainsBevel(LastRule)) =>
        /\ Cardinality(LogPositions({"capture"})) = 1
        /\ LogPositions({IF legacy_api THEN "verify" ELSE "get"}) # {}
        /\ (BevelLayerName(legacy_api) \notin pre.layers) = (LogPositions({"alloc"}) # {})
        /\ BevelLayerName(legacy_api) \in layers
        /\ \A c \in LogPositions({"capture"}) :
              /\ \A a \in LogPositions({"verify", "get", "alloc"}) : a < c
              /\ \A w \in LogPositions({"write"}) : c < w

\* A general bevel conversion on the generic layer path allocated the layer
\* and then wrote an edge.
C8_Witness ==
    /\ FinishedCall
    /\ last.op = GeneralOp
    /\ ContainsBevel(last.conversion_type)
    /\ ~legacy_api
    /\ LogPositions({"alloc"}) # {}
    /\ LogPositions({"write"}) # {}

\* The outcome, count and final context of a call, without the wording of
\* the info message.
Outcome(r) == [ctx |-> r.ctx, ret |-> r.ret,
               warning |-> IF r.report[1] = "WARNING" THEN r.report[2] ELSE "",
               modified_count |-> r.modified_count]

\* What the last call produced.
LastOutcome == Outcome([ctx |-> Ctx, ret |-> last.ret, report |-> last.report,
                        modified_count |-> last.modified_count])

\* The call's counterpart: the general operator for a quick one, the quick
\* operator of the rule for the general one.
Counterpart == IF last.op = GeneralOp THEN QuickOpOf(LastRule) ELSE GeneralOp

\* C9: a quick conversion and the general conversion with the same rule and
\* flag, started from the same context, end with the same outcome, the same
\* count and the same final context.
C9_QuickEqualsGeneral ==
    Called =>
        Outcome(Execute(Counterpart, pre, LastRule, last.clear_original)) = LastOutcome

\* A quick seam-to-sharp call converted an edge, and the general operator
\* would have left the mesh the same from the same start.
C9_Witness ==
    /\ FinishedCall
    /\ last.op = "mesh.quick_convert_seam_to_sharp"
    /\ last.modified_count >= 1
    /\ edges # pre.edges
    /\ convert_edge_attributes_execute(pre, "SEAM_TO_SHARP", last.clear_original).ctx = Ctx

\* C10: no call changes the scene property, and the same call started from
\* the same context with the other value of the scene property ends with the
\* same outcome, report and count, and the same final context but for the
\* property itself.
C10_SceneSettingIgnored ==
    Called =>
        /\ edge_clear_original = pre.edge_clear_original
        /\ LET r == Execute(last.op, [pre EXCEPT !.edge_clear_original = ~@],
                            last.conversion_type, last.clear_original)
           IN /\ r.ctx = [Ctx EXCEPT !.edge_clear_original = ~@]
              /\ r.ret = last.ret
              /\ r.report = last.report
              /\ r.modified_count = last.modified_count

\* A quick sharp-to-bevel call with clear_original set cleared a sharp edge
\* while the scene property was off.
C10_Witness ==
    /\ FinishedCall
    /\ last.op = "mesh.quick_convert_sharp_to_bevel"
    /\ last.clear_original
    /\ ~edge_clear_original
    /\ \E e \in Matching("SHARP_TO_BEVEL") : ~IsSharp(edges[e])

====
